---- MODULE Spec2Model ----
(***************************************************************************)
(* A model of minitorch's differentiable Tensor (src/minitorch/tensor.py). *)
(*                                                                         *)
(* tensor.py is the only module of the library that is present; it rests   *)
(* on three modules that are not: tensor_data (TensorData, the strided     *)
(* buffer), tensor_ops (TensorOps: map / zip / reduce) and autodiff        *)
(* (Variable, FunctionBase and the backward engine).  Those are modelled   *)
(* from spec.md sections 3, 4.1, 4.2 and 4.3 and are marked as such.       *)
(*                                                                         *)
(* Representation                                                          *)
(*   - floats are integers (every value the properties speak of is a small *)
(*     whole number: 0.0, 1.0, 2.0, sums and products of those);           *)
(*   - a storage lives in the heap `mem`, a sequence of storages, and is   *)
(*     named by its index, so that two buffers over the same storage are   *)
(*     observably aliased;                                                 *)
(*   - a TensorData is [storage, shape, strides]; a multi-index is a       *)
(*     sequence of 0-based coordinates;                                    *)
(*   - an operation that allocates or may raise returns [mem, out, err];   *)
(*     err = "" means it returned normally.                                *)
(***************************************************************************)
EXTENDS Integers, Sequences, FiniteSets, TLC

VARIABLES
    mem,        \* heap of storages: Seq(Seq(Int))
    pc,         \* position of the running script
    err,        \* the exception that ended the script, "" if none
    shapeA,     \* SpecShape: the two shapes handed to shape_broadcast
    shapeB,
    unifyAB,    \* SpecShape: shape_broadcast(shapeA, shapeB), once called
    unifyBA,    \* SpecShape: shape_broadcast(shapeB, shapeA), once called
    selfT,      \* SpecExpand: the receiver of expand
    otherT,     \* SpecExpand: the argument of expand
    expOut,     \* SpecExpand: what expand returned
    cur,        \* SpecPermute, SpecView: the tensor the script holds
    last,       \* SpecPermute, SpecView: the call made last
    prev,       \* SpecPermute, SpecView: the call made before it
    nops,       \* SpecPermute, SpecView: calls made so far
    tensors,    \* Spec: the Tensors the script has made, in order of creation
    root,       \* Spec: the tensor backward was called on, 0 if none
    queue,      \* Spec: the nodes the running backward pass has yet to visit
    grads,      \* Spec: the gradient the pass has accumulated for each node
    calls       \* Spec: the nodes whose backward rule the pass has invoked

vars == <<mem, pc, err, shapeA, shapeB, unifyAB, unifyBA, selfT, otherT, expOut,
          cur, last, prev, nops, tensors, root, queue, grads, calls>>
gradVars == <<tensors, root, queue, grads, calls>>
shapeVars == <<shapeA, shapeB, unifyAB, unifyBA>>
expandVars == <<selfT, otherT, expOut>>
opVars == <<cur, last, prev, nops>>

\* ------------------------------------------------------------------ bounds
MaxDims == 3        \* longest shape drawn as an input
MaxDimSize == 3     \* largest size of one dimension drawn as an input
TensorDims == 2     \* longest shape of a tensor in SpecExpand and SpecView
PermDimSize == 2    \* largest size of one dimension in SpecPermute and SpecView
MaxOps == 3         \* calls one script of SpecView makes
MaxTensors == 3     \* tensors one script of Spec makes
MaxLeaves == 2      \* of which made by tensor(ls)
GraphTensors == 4   \* tensors one script of SpecGraph makes

\* ------------------------------------------------------------ conventions
\* Python's None where a TensorData / Tensor is expected.
NoneT == [storage |-> 0, shape |-> <<>>, strides |-> <<>>]

\* A normal return and a raised exception.
Return(m, t) == [mem |-> m, out |-> t, err |-> ""]
Raise(m, e) == [mem |-> m, out |-> NoneT, err |-> e]

Max(a, b) == IF a >= b THEN a ELSE b

RECURSIVE SumSeq(_)
SumSeq(s) == IF s = <<>> THEN 0 ELSE s[1] + SumSeq(Tail(s))

\* operators.prod
RECURSIVE prod(_)
prod(shape) == IF shape = <<>> THEN 1 ELSE shape[1] * prod(Tail(shape))

\* Shapes of 1..n dimensions, each of size 1..k.
RECURSIVE ShapesOfLen(_, _)
ShapesOfLen(n, k) ==
    IF n = 0 THEN {<<>>}
    ELSE {<<d>> \o s : d \in 1..k, s \in ShapesOfLen(n - 1, k)}

Shapes == UNION {ShapesOfLen(n, MaxDimSize) : n \in 1..MaxDims}
TensorShapes == UNION {ShapesOfLen(n, MaxDimSize) : n \in 1..TensorDims}
PermShapes == UNION {ShapesOfLen(n, PermDimSize) : n \in 1..MaxDims}
ViewShapes == UNION {ShapesOfLen(n, PermDimSize) : n \in 1..TensorDims}

\* ------------------------------------------------- tensor_data: TensorData
\* Row-major strides of a shape.
strides_from_shape(shape) ==
    [i \in 1..Len(shape) |-> prod(SubSeq(shape, i + 1, Len(shape)))]

\* sum(idx[d] * strides[d])
index_to_position(index, strides) ==
    SumSeq([d \in 1..Len(index) |-> index[d] * strides[d]])

\* The multi-index of the ordinal-th cell of `shape` in row-major order.
to_index(ordinal, shape) ==
    [d \in 1..Len(shape) |->
        (ordinal \div prod(SubSeq(shape, d + 1, Len(shape)))) % shape[d]]

\* Maps an index of the broadcast shape to an index of the smaller `shape`:
\* the leading extra dimensions are dropped, a size-1 dimension reads 0.
broadcast_index(big_index, big_shape, shape) ==
    [d \in 1..Len(shape) |->
        IF shape[d] > 1 THEN big_index[d + (Len(big_shape) - Len(shape))] ELSE 0]

\* A faulty variant of shape_broadcast: the result takes the first shape's size
\* wherever the pair is compatible.
shape_broadcast_first(shape1, shape2) ==
    LET n == Max(Len(shape1), Len(shape2))
        a == [i \in 1..n |-> IF i <= n - Len(shape1) THEN 1
                             ELSE shape1[i - (n - Len(shape1))]]
        b == [i \in 1..n |-> IF i <= n - Len(shape2) THEN 1
                             ELSE shape2[i - (n - Len(shape2))]]
    IN  IF \E i \in 1..n : a[i] # b[i] /\ a[i] # 1 /\ b[i] # 1
        THEN [err |-> "ShapeMismatch", shape |-> <<>>]
        ELSE [err |-> "", shape |-> a]

\* TensorData.shape_broadcast: walks the two shapes from the right; a
\* missing dimension counts as 1; a pair must be equal or hold a 1.
RECURSIVE shape_broadcast_from(_, _, _)
shape_broadcast_from(shape1, shape2, acc) ==
    IF shape1 = <<>> /\ shape2 = <<>> THEN [err |-> "", shape |-> acc]
    ELSE LET a == IF shape1 = <<>> THEN 1 ELSE shape1[Len(shape1)]
             b == IF shape2 = <<>> THEN 1 ELSE shape2[Len(shape2)]
             r1 == IF shape1 = <<>> THEN <<>> ELSE SubSeq(shape1, 1, Len(shape1) - 1)
             r2 == IF shape2 = <<>> THEN <<>> ELSE SubSeq(shape2, 1, Len(shape2) - 1)
         IN  IF a = b THEN shape_broadcast_from(r1, r2, <<a>> \o acc)
             ELSE IF a = 1 THEN shape_broadcast_from(r1, r2, <<b>> \o acc)
             ELSE IF b = 1 THEN shape_broadcast_from(r1, r2, <<a>> \o acc)
             ELSE [err |-> "ShapeMismatch", shape |-> <<>>]

shape_broadcast(shape1, shape2) == shape_broadcast_from(shape1, shape2, <<>>)

\* TensorData.is_contiguous: the strides are the row-major strides of shape.
is_contiguous(t) == t.strides = strides_from_shape(t.shape)

\* TensorData.permute: a view of the same storage, shape and strides
\* reordered by `order` (0-based, as in the source).
is_permutation(order, n) ==
    /\ Len(order) = n
    /\ \A k \in 0..(n - 1) : \E i \in 1..n : order[i] = k

TensorData_permute(t, order) ==
    [storage |-> t.storage,
     shape |-> [i \in 1..Len(order) |-> t.shape[order[i] + 1]],
     strides |-> [i \in 1..Len(order) |-> t.strides[order[i] + 1]]]

\* TensorData.get: the value at a multi-index.
TensorData_get(m, t, index) == m[t.storage][index_to_position(index, t.strides) + 1]

\* All multi-indices of a shape.
Indices(shape) == {to_index(o, shape) : o \in 0..(prod(shape) - 1)}

\* TensorData(storage, shape, strides = None): a buffer over an existing
\* storage; the storage must hold exactly prod(shape) values.
TensorData_new(m, sid, shape) ==
    IF Len(m[sid]) # prod(shape) THEN Raise(m, "AssertionError")
    ELSE Return(m, [storage |-> sid, shape |-> shape,
                    strides |-> strides_from_shape(shape)])

\* -------------------------------------------------------------- operators
\* The scalar functions the tensor functions are built from.
ApplyFn(fn, x) ==
    CASE fn = "id" -> x
      [] fn = "neg" -> 0 - x

ApplyFn2(fn, x, y) ==
    CASE fn = "add" -> x + y
      [] fn = "mul" -> x * y

\* ------------------------------------------------- tensor.py: construction
\* Tensor.make(storage, shape): wraps TensorData(storage, shape, None).
Tensor_make(m, sid, shape) == TensorData_new(m, sid, shape)

\* zeros(shape): Tensor.make([0] * prod(shape), shape) over a fresh storage.
zeros(m, shape) ==
    Tensor_make(Append(m, [i \in 1..prod(shape) |-> 0]), Len(m) + 1, shape)

\* tensor(ls, shape = None): the shape defaults to (len(ls),).
tensor(m, ls) == Tensor_make(Append(m, ls), Len(m) + 1, <<Len(ls)>>)

\* Tensor.zeros(shape = None): zeros of the given shape, or of self's.
Tensor_zeros(m, self, shape) ==
    IF shape = <<>> THEN zeros(m, self.shape) ELSE zeros(m, shape)

\* A faulty variant of View_forward: the contiguity assertion is dropped.
View_forward_unchecked(m, a, shape) ==
    LET r == Tensor_make(m, a.storage, shape)
    IN  [mem |-> r.mem, out |-> r.out, err |-> r.err, saved |-> a.shape]

\* A faulty variant of View_forward: the view is made over a copy of the storage.
View_forward_copy(m, a, shape) ==
    IF ~is_contiguous(a)
    THEN [mem |-> m, out |-> NoneT, err |-> "AssertionError", saved |-> a.shape]
    ELSE LET r == Tensor_make(Append(m, m[a.storage]), Len(m) + 1, shape)
         IN  [mem |-> r.mem, out |-> r.out, err |-> r.err, saved |-> a.shape]

\* View.forward(ctx, a, shape): saves a.shape, asserts that a is contiguous
\* and returns a tensor over a's own storage with the new shape.
View_forward(m, a, shape) ==
    IF ~is_contiguous(a)
    THEN [mem |-> m, out |-> NoneT, err |-> "AssertionError", saved |-> a.shape]
    ELSE LET r == Tensor_make(m, a.storage, shape)
         IN  [mem |-> r.mem, out |-> r.out, err |-> r.err, saved |-> a.shape]

\* View.backward(ctx, grad_output): grad_output's storage under the saved
\* shape; no contiguity check is made here.
View_backward(m, saved, grad_output) ==
    LET r == Tensor_make(m, grad_output.storage, saved)
    IN  [mem |-> r.mem, outs |-> <<r.out>>, err |-> r.err]

\* Tensor.view(*shape) on a tensor without history, as the tensor functions
\* call it on their own buffers.
Tensor_view(m, a, shape) ==
    LET r == View_forward(m, a, shape) IN [mem |-> r.mem, out |-> r.out, err |-> r.err]

\* ---------------------------------------------------- tensor_ops: TensorOps
\* tensor_map: for every cell of out, in row-major order, out[cell] =
\* fn(in[broadcast_index(cell)]).
RECURSIVE tensor_map(_, _, _, _, _)
tensor_map(m, fn, out, a, i) ==
    IF i >= prod(out.shape) THEN m
    ELSE LET out_index == to_index(i, out.shape)
             in_index == broadcast_index(out_index, out.shape, a.shape)
             o == index_to_position(out_index, out.strides)
             j == index_to_position(in_index, a.strides)
         IN  tensor_map([m EXCEPT ![out.storage][o + 1] = ApplyFn(fn, m[a.storage][j + 1])],
                        fn, out, a, i + 1)

\* map(fn)(a, out = None): out defaults to a.zeros(a.shape); returns out.
map(m, fn, a, out) ==
    LET z == IF out = NoneT THEN Tensor_zeros(m, a, a.shape) ELSE Return(m, out)
    IN  Return(tensor_map(z.mem, fn, z.out, a, 0), z.out)

\* tensor_zip: for every cell of out, out[cell] = fn(a[...], b[...]), each
\* operand read through broadcast_index.
RECURSIVE tensor_zip(_, _, _, _, _, _)
tensor_zip(m, fn, out, a, b, i) ==
    IF i >= prod(out.shape) THEN m
    ELSE LET out_index == to_index(i, out.shape)
             o == index_to_position(out_index, out.strides)
             j == index_to_position(broadcast_index(out_index, out.shape, a.shape), a.strides)
             k == index_to_position(broadcast_index(out_index, out.shape, b.shape), b.strides)
         IN  tensor_zip([m EXCEPT ![out.storage][o + 1] =
                             ApplyFn2(fn, m[a.storage][j + 1], m[b.storage][k + 1])],
                        fn, out, a, b, i + 1)

\* zip(fn)(a, b): the output has the broadcast-unified shape.
zip(m, fn, a, b) ==
    LET c == IF a.shape # b.shape THEN shape_broadcast(a.shape, b.shape)
             ELSE [err |-> "", shape |-> a.shape]
    IN  IF c.err # "" THEN Raise(m, c.err)
        ELSE LET z == Tensor_zeros(m, a, c.shape)
             IN  Return(tensor_zip(z.mem, fn, z.out, a, b, 0), z.out)

\* tensor_reduce, the fold of one output cell: out[o] = fn(out[o], a[j])
\* for the reduce_size cells of a that collapse onto it, left to right.
RECURSIVE reduce_cell(_, _, _, _, _, _, _)
reduce_cell(m, fn, out, a, out_index, reduce_shape, s) ==
    IF s >= prod(reduce_shape) THEN m
    ELSE LET a_index == to_index(s, reduce_shape)
             idx == [l \in 1..Len(reduce_shape) |->
                        IF reduce_shape[l] # 1 THEN a_index[l] ELSE out_index[l]]
             o == index_to_position(out_index, out.strides)
             j == index_to_position(idx, a.strides)
         IN  reduce_cell([m EXCEPT ![out.storage][o + 1] =
                              ApplyFn2(fn, m[out.storage][o + 1], m[a.storage][j + 1])],
                         fn, out, a, out_index, reduce_shape, s + 1)

RECURSIVE tensor_reduce(_, _, _, _, _, _)
tensor_reduce(m, fn, out, a, reduce_shape, i) ==
    IF i >= prod(out.shape) THEN m
    ELSE tensor_reduce(reduce_cell(m, fn, out, a, to_index(i, out.shape), reduce_shape, 0),
                       fn, out, a, reduce_shape, i + 1)

\* reduce(fn)(a, dims = None, out = None).  Without out, a fresh buffer of
\* a's shape with the listed dims set to 1, filled with the start value 0.
\* With out, out is viewed with leading 1s up to a's rank, a is folded into
\* it over every dimension in which the viewed out has size 1, and the
\* result is viewed back under out's own shape.
reduce(m, fn, a, dims, out) ==
    LET n == Len(a.shape)
        ones(k) == [i \in 1..k |-> 1]
        z == IF out = NoneT
             THEN Tensor_zeros(m, a, [i \in 1..n |->
                      IF \E k \in 1..Len(dims) : dims[k] = i - 1 THEN 1 ELSE a.shape[i]])
             ELSE IF n < Len(out.shape) THEN Raise(m, "AssertionError")
             ELSE Tensor_view(m, out, ones(n - Len(out.shape)) \o out.shape)
    IN  IF z.err # "" THEN Raise(z.mem, z.err)
        ELSE LET reduce_shape == [i \in 1..n |-> IF z.out.shape[i] = 1 THEN a.shape[i] ELSE 1]
                 m2 == tensor_reduce(z.mem, fn, z.out, a, reduce_shape, 0)
             IN  IF out = NoneT THEN Return(m2, z.out)
                 ELSE Tensor_view(m2, z.out, out.shape)

\* ------------------------------------------------------- tensor.py: expand
\* A faulty variant of expand: the broadcast buffer is returned without the
\* reduction back to self's shape.
expand_unreduced(m, self, other) ==
    IF self.shape = other.shape THEN Return(m, other)
    ELSE LET sb == shape_broadcast(self.shape, other.shape)
         IN  IF sb.err # "" THEN Raise(m, sb.err)
             ELSE LET buf == zeros(m, sb.shape)
                  IN  Return(map(buf.mem, "id", other, buf.out).mem, buf.out)

\* Tensor.expand(other): other when the shapes agree; else other written by
\* id_map into zeros(unified shape); and, when that is not self's shape,
\* that buffer folded by add_reduce into zeros(self.shape).
expand(m, self, other) ==
    IF self.shape = other.shape THEN Return(m, other)
    ELSE LET sb == shape_broadcast(self.shape, other.shape)
         IN  IF sb.err # "" THEN Raise(m, sb.err)
             ELSE LET buf == zeros(m, sb.shape)
                      r == map(buf.mem, "id", other, buf.out)
                  IN  IF self.shape = sb.shape THEN Return(r.mem, buf.out)
                      ELSE LET buf2 == zeros(r.mem, self.shape)
                               rr == reduce(buf2.mem, "add", buf.out, <<>>, buf2.out)
                           IN  IF rr.err # "" THEN Raise(rr.mem, rr.err)
                               ELSE Return(rr.mem, buf2.out)

\* ------------------------------------------- tensor.py: Permute and Copy
\* sorted(enumerate(order), key = lambda a: a[1]), then the first member of
\* each pair: the positions of order, by ascending value (ties in order of
\* position, the sort being stable).
argsort(order) ==
    LET n == Len(order)
        rank(i) == 1 + Cardinality({j \in 1..n :
                        order[j] < order[i] \/ (order[j] = order[i] /\ j < i)})
    IN  [k \in 1..n |-> (CHOOSE i \in 1..n : rank(i) = k) - 1]

\* Tensor._new(tensor_data) over TensorData.permute(*order), which rejects
\* an order that is no permutation of range(dims).
permute_new(m, a, order) ==
    IF ~is_permutation(order, Len(a.shape)) THEN Raise(m, "ValueError")
    ELSE Return(m, TensorData_permute(a, order))

\* Permute.forward(ctx, a, order): saves order, returns the permuted view.
Permute_forward(m, a, order) ==
    LET r == permute_new(m, a, order)
    IN  [mem |-> r.mem, out |-> r.out, err |-> r.err, saved |-> order]

\* A faulty variant of Permute_backward: grad_output is permuted by the saved order
\* itself.
Permute_backward_same(m, saved, grad_output) ==
    LET r == permute_new(m, grad_output, saved)
    IN  [mem |-> r.mem, outs |-> <<r.out>>, err |-> r.err]

\* Permute.backward(ctx, grad_output): grad_output permuted by the argsort
\* of the saved order.
Permute_backward(m, saved, grad_output) ==
    LET r == permute_new(m, grad_output, argsort(saved))
    IN  [mem |-> r.mem, outs |-> <<r.out>>, err |-> r.err]

\* Copy.forward(ctx, a): id_map(a), a fresh contiguous tensor.
Copy_forward(m, a) ==
    LET Result(r) == [mem |-> r.mem, out |-> r.out, err |-> r.err, saved |-> <<>>]
    IN  Result(map(m, "id", a, NoneT))

\* Copy.backward(ctx, grad_output)
Copy_backward(m, saved, grad_output) ==
    [mem |-> m, outs |-> <<grad_output>>, err |-> ""]

\* ---------------------------------------- tensor.py: Neg, Add, Mul, Sum
\* A forward returns [mem, out, err, saved]; a backward returns
\* [mem, outs, err], outs holding one gradient per tensor input.
Neg_forward(m, t1) ==
    LET Result(r) == [mem |-> r.mem, out |-> r.out, err |-> r.err, saved |-> <<>>]
    IN  Result(map(m, "neg", t1, NoneT))

Neg_backward(m, saved, grad_output) ==
    LET Result(r) == [mem |-> r.mem, outs |-> <<r.out>>, err |-> r.err]
    IN  Result(map(m, "neg", grad_output, NoneT))

Add_forward(m, t1, t2) ==
    LET Result(r) == [mem |-> r.mem, out |-> r.out, err |-> r.err, saved |-> <<>>]
    IN  Result(zip(m, "add", t1, t2))

\* A faulty variant of Add_backward: the second operand is given a zero gradient.
Add_backward_first(m, saved, grad_output) ==
    LET z == zeros(m, grad_output.shape)
    IN  [mem |-> z.mem, outs |-> <<grad_output, z.out>>, err |-> ""]

\* Add.backward: return grad_output, grad_output
Add_backward(m, saved, grad_output) ==
    [mem |-> m, outs |-> <<grad_output, grad_output>>, err |-> ""]

\* Mul.forward and Mul.backward raise NotImplementedError.
Mul_forward(m, a, b) ==
    [mem |-> m, out |-> NoneT, err |-> "NotImplementedError", saved |-> <<>>]

Mul_backward(m, saved, grad_output) ==
    [mem |-> m, outs |-> <<>>, err |-> "NotImplementedError"]

\* Sum.forward(ctx, a, dim): dim is <<>> for None, <<d>> for a dimension.
\* Saves a.shape; reduces over [dim], or over every dimension and then
\* views the result as (1,).
Sum_forward(m, a, dim) ==
    LET Result(r) == [mem |-> r.mem, out |-> r.out, err |-> r.err, saved |-> a.shape]
        Viewed(r) == IF r.err # "" THEN r ELSE Tensor_view(r.mem, r.out, <<1>>)
    IN  IF dim # <<>>
        THEN Result(reduce(m, "add", a, dim, NoneT))
        ELSE Result(Viewed(reduce(m, "add", a, [i \in 1..Len(a.shape) |-> i - 1], NoneT)))

\* A faulty variant of Sum_backward: no gradient is returned.
Sum_backward_nothing(m, saved, grad_output) ==
    [mem |-> m, outs |-> <<>>, err |-> ""]

\* Sum.backward: return grad_output
Sum_backward(m, saved, grad_output) ==
    [mem |-> m, outs |-> <<grad_output>>, err |-> ""]

\* The forward and the backward of the function named fn.
Forward(fn, m, ins, arg) ==
    CASE fn = "Neg" -> Neg_forward(m, ins[1])
      [] fn = "Add" -> Add_forward(m, ins[1], ins[2])
      [] fn = "Mul" -> Mul_forward(m, ins[1], ins[2])
      [] fn = "Sum" -> Sum_forward(m, ins[1], arg)
      [] fn = "Copy" -> Copy_forward(m, ins[1])

Backward(fn, m, saved, grad_output) ==
    CASE fn = "Neg" -> Neg_backward(m, saved, grad_output)
      [] fn = "Add" -> Add_backward(m, saved, grad_output)
      [] fn = "Mul" -> Mul_backward(m, saved, grad_output)
      [] fn = "Sum" -> Sum_backward(m, saved, grad_output)
      [] fn = "Copy" -> Copy_backward(m, saved, grad_output)

\* ----------------------------------------------- autodiff: Variable, Back
\* A Tensor is [_tensor, back, derivative].  back is NoBack (None) for a
\* tensor without history, LeafBack for a leaf that requires grad, and
\* [fn, saved, inputs] for the result of a function; inputs are positions
\* in `tensors`.
NoBack == [fn |-> "None", saved |-> <<>>, inputs |-> <<>>]
LeafBack == [fn |-> "Leaf", saved |-> <<>>, inputs |-> <<>>]

is_leaf(t) == t.back = LeafBack
has_history(t) == t.back # NoBack

\* Function.variable(data, back): Tensor(data[0], back, backend = data[1])
Function_variable(data, back) ==
    [_tensor |-> data, back |-> back, derivative |-> NoneT]

\* FunctionBase.apply(*vals): runs forward on the inputs' data and wraps
\* the result; the result records the function, what forward saved and the
\* input Tensors when some input has a history.
FunctionBase_apply(m, ts, fn, inputs, arg) ==
    LET need_grad == \E k \in 1..Len(inputs) : has_history(ts[inputs[k]])
        back(r) == IF need_grad THEN [fn |-> fn, saved |-> r.saved, inputs |-> inputs]
                   ELSE NoBack
        Wrapped(r) ==
            IF r.err # "" THEN [mem |-> r.mem, tensors |-> ts, err |-> r.err]
            ELSE [mem |-> r.mem, tensors |-> Append(ts, Function_variable(r.out, back(r))),
                  err |-> ""]
    IN  Wrapped(Forward(fn, m, [k \in 1..Len(inputs) |-> ts[inputs[k]]._tensor], arg))

Reverse(s) == [i \in 1..Len(s) |-> s[Len(s) + 1 - i]]
Range(s) == {s[i] : i \in 1..Len(s)}

\* A faulty variant of topological_sort: the nodes in the order a depth-first walk
\* from the root first meets them.
RECURSIVE preorder(_, _, _)
RECURSIVE preorder_inputs(_, _, _, _)
preorder(ts, n, seen) ==
    IF n \in Range(seen) \/ ts[n].back \in {NoBack, LeafBack} THEN seen
    ELSE preorder_inputs(ts, ts[n].back.inputs, 1, Append(seen, n))
preorder_inputs(ts, inputs, k, seen) ==
    IF k > Len(inputs) THEN seen
    ELSE preorder_inputs(ts, inputs, k + 1, preorder(ts, inputs[k], seen))

topological_sort_preorder(ts, n) == preorder(ts, n, <<>>)

\* The topological sort of the nodes reachable from the root: a depth-first
\* walk that lists a node once all of its inputs are listed, reversed.
RECURSIVE visit(_, _, _)
RECURSIVE visit_inputs(_, _, _, _)
visit(ts, n, done) ==
    IF n \in Range(done) \/ ts[n].back \in {NoBack, LeafBack} THEN done
    ELSE Append(visit_inputs(ts, ts[n].back.inputs, 1, done), n)
visit_inputs(ts, inputs, k, done) ==
    IF k > Len(inputs) THEN done
    ELSE visit_inputs(ts, inputs, k + 1, visit(ts, inputs[k], done))

topological_sort(ts, n) == Reverse(visit(ts, n, <<>>))

\* Accumulation into a gradient slot: the slot is allocated as zeros of the
\* tensor's shape on first use, and the contribution is added to it.
accumulate(m, t, slot, d) ==
    LET z == IF slot = NoneT THEN zeros(m, t.shape) ELSE Return(m, slot)
    IN  zip(z.mem, "add", z.out, d)

\* FunctionBase.chain_rule, input by input: the k-th gradient the backward
\* rule returned is expanded to the k-th input's shape and accumulated into
\* the input's derivative if it is a leaf, into the pass's gradient for it
\* otherwise; an input without history gets nothing.  st is [mem, tensors,
\* grads, err].
RECURSIVE chain_rule(_, _, _, _)
chain_rule(st, inputs, outs, k) ==
    IF k > Len(inputs) \/ k > Len(outs) \/ st.err # "" THEN st
    ELSE LET i == inputs[k]
             t == st.tensors[i]
         IN  IF ~has_history(t) THEN chain_rule(st, inputs, outs, k + 1)
             ELSE LET slot == IF is_leaf(t) THEN t.derivative ELSE st.grads[i]
                      Accumulated(e) ==
                          IF e.err # "" THEN e
                          ELSE accumulate(e.mem, t._tensor, slot, e.out)
                      Stored(a) ==
                          IF a.err # "" THEN [st EXCEPT !.mem = a.mem, !.err = a.err]
                          ELSE chain_rule(
                                   [st EXCEPT
                                       !.mem = a.mem,
                                       !.tensors = IF is_leaf(t)
                                                   THEN [@ EXCEPT ![i].derivative = a.out]
                                                   ELSE @,
                                       !.grads = IF is_leaf(t) THEN @
                                                 ELSE [@ EXCEPT ![i] = a.out]],
                                   inputs, outs, k + 1)
                  IN  Stored(Accumulated(expand(st.mem, t._tensor, outs[k])))

\* Variable.backward(d_output): the seed must have the root's shape.  A
\* leaf root takes the seed into its derivative; otherwise the seed is the
\* root's gradient and the nodes are queued in topological order.
Variable_backward(m, ts, r, d_output) ==
    LET none == [i \in 1..Len(ts) |-> NoneT]
    IN  IF d_output.shape # ts[r]._tensor.shape
        THEN [mem |-> m, tensors |-> ts, grads |-> none, queue |-> <<>>,
              err |-> "ShapeMismatch"]
        ELSE IF is_leaf(ts[r])
        THEN LET Stored(a) ==
                     [mem |-> a.mem, tensors |-> [ts EXCEPT ![r].derivative = a.out],
                      grads |-> none, queue |-> <<>>, err |-> a.err]
             IN  Stored(accumulate(m, ts[r]._tensor, ts[r].derivative, d_output))
        ELSE [mem |-> m, tensors |-> ts, grads |-> [none EXCEPT ![r] = d_output],
              queue |-> topological_sort(ts, r), err |-> ""]

\* Variable.zero_grad_(): derivative = self.zeros()
Variable_zero_grad_(m, t) ==
    LET z == Tensor_zeros(m, t._tensor, <<>>)
    IN  Return(z.mem, [t EXCEPT !.derivative = z.out])

\* ------------------------------------------------------ tensor.py: backward
\* A faulty variant of Tensor_backward: the default seed is a zero.
Tensor_backward_zero_seed(m, ts, r, grad_output) ==
    IF grad_output = NoneT /\ ts[r]._tensor.shape # <<1>>
    THEN [mem |-> m, tensors |-> ts, grads |-> <<>>, queue |-> <<>>,
          err |-> "AssertionError", seed |-> NoneT]
    ELSE LET g == IF grad_output = NoneT THEN tensor(m, <<0>>) ELSE Return(m, grad_output)
             Result(b) == [mem |-> b.mem, tensors |-> b.tensors, grads |-> b.grads,
                           queue |-> b.queue, err |-> b.err, seed |-> g.out]
         IN  Result(Variable_backward(g.mem, ts, r, g.out))

\* Tensor.backward(grad_output = None): without grad_output the root must
\* have shape (1,) and the seed is tensor([1.0]); then Variable.backward.
Tensor_backward(m, ts, r, grad_output) ==
    IF grad_output = NoneT /\ ts[r]._tensor.shape # <<1>>
    THEN [mem |-> m, tensors |-> ts, grads |-> <<>>, queue |-> <<>>,
          err |-> "AssertionError", seed |-> NoneT]
    ELSE LET g == IF grad_output = NoneT THEN tensor(m, <<1>>) ELSE Return(m, grad_output)
             Result(b) == [mem |-> b.mem, tensors |-> b.tensors, grads |-> b.grads,
                           queue |-> b.queue, err |-> b.err, seed |-> g.out]
         IN  Result(Variable_backward(g.mem, ts, r, g.out))

\* ================================================================ SpecShape
\* shape_broadcast called on a pair of shapes, in both argument orders.
Uncalled == [err |-> "uncalled", shape |-> <<>>]

\* The record of one call: the function, its argument, what it saved, the
\* tensor it was given with the contents of that tensor's storage, what it
\* returned and what it raised.
NoOp == [fn |-> "", arg |-> <<>>, saved |-> <<>>, in |-> NoneT, snap |-> <<>>,
         out |-> NoneT, err |-> ""]

InitShape ==
    /\ shapeA \in Shapes
    /\ shapeB \in Shapes
    /\ unifyAB = Uncalled
    /\ unifyBA = Uncalled
    /\ pc = "shape"
    /\ mem = <<>>
    /\ err = ""
    /\ selfT = NoneT
    /\ otherT = NoneT
    /\ expOut = NoneT
    /\ cur = NoneT
    /\ last = NoOp
    /\ prev = NoOp
    /\ nops = 0
    /\ tensors = <<>>
    /\ root = 0
    /\ queue = <<>>
    /\ grads = <<>>
    /\ calls = <<>>

CallUnifyAB ==
    /\ pc = "shape"
    /\ unifyAB = Uncalled
    /\ unifyAB' = shape_broadcast(shapeA, shapeB)
    /\ UNCHANGED <<mem, pc, err, shapeA, shapeB, unifyBA, expandVars, opVars, gradVars>>

CallUnifyBA ==
    /\ pc = "shape"
    /\ unifyBA = Uncalled
    /\ unifyBA' = shape_broadcast(shapeB, shapeA)
    /\ UNCHANGED <<mem, pc, err, shapeA, shapeB, unifyAB, expandVars, opVars, gradVars>>

NextShape == CallUnifyAB \/ CallUnifyBA

SpecShape == InitShape /\ [][NextShape]_vars

\* =============================================================== SpecExpand
\* self.expand(other) for a receiver and an argument of any two shapes.
\* The argument holds 1, 2, 3, ... so that every cell is told apart.
InitExpand ==
    \E s1 \in TensorShapes, s2 \in TensorShapes :
        LET a == zeros(<<>>, s1)
            b == Tensor_make(Append(a.mem, [i \in 1..prod(s2) |-> i]), Len(a.mem) + 1, s2)
        IN  /\ mem = b.mem
            /\ selfT = a.out
            /\ otherT = b.out
            /\ expOut = NoneT
            /\ pc = "expand"
            /\ err = ""
            /\ shapeA = s1
            /\ shapeB = s2
            /\ unifyAB = Uncalled
            /\ unifyBA = Uncalled
            /\ cur = NoneT
            /\ last = NoOp
            /\ prev = NoOp
            /\ nops = 0
            /\ tensors = <<>>
            /\ root = 0
            /\ queue = <<>>
            /\ grads = <<>>
            /\ calls = <<>>

CallExpand ==
    /\ pc = "expand"
    /\ LET r == expand(mem, selfT, otherT)
       IN  /\ mem' = r.mem
           /\ expOut' = r.out
           /\ err' = r.err
           /\ pc' = IF r.err = "" THEN "expanded" ELSE "raised"
    /\ UNCHANGED <<shapeVars, selfT, otherT, opVars, gradVars>>

NextExpand == CallExpand

SpecExpand == InitExpand /\ [][NextExpand]_vars

\* ------------------------------------------------------------ properties
\* The size of shape's dimension that is k-th from the right (k >= 1), a
\* missing dimension counting as 1.
FromRight(shape, k) == IF k <= Len(shape) THEN shape[Len(shape) - k + 1] ELSE 1

\* Some right-aligned pair of sizes is unequal and neither is 1.
Clash(s1, s2) ==
    \E k \in 1..Max(Len(s1), Len(s2)) :
        /\ FromRight(s1, k) # FromRight(s2, k)
        /\ FromRight(s1, k) # 1
        /\ FromRight(s2, k) # 1

\* C8: shape_broadcast(A, B) and shape_broadcast(B, A) agree; the call fails
\* with ShapeMismatch exactly when some right-aligned pair of sizes is
\* unequal with neither size 1; otherwise the result has the longer rank and
\* each of its sizes is the larger of the pair.
C8_BroadcastUnify ==
    /\ (unifyAB # Uncalled /\ unifyBA # Uncalled) => unifyAB = unifyBA
    /\ unifyAB # Uncalled =>
          /\ (unifyAB.err = "ShapeMismatch") <=> Clash(shapeA, shapeB)
          /\ (unifyAB.err = "") <=> ~Clash(shapeA, shapeB)
          /\ unifyAB.err = "" =>
                /\ Len(unifyAB.shape) = Max(Len(shapeA), Len(shapeB))
                /\ \A k \in 1..Len(unifyAB.shape) :
                      FromRight(unifyAB.shape, k) =
                          Max(FromRight(shapeA, k), FromRight(shapeB, k))

\* C8 witness: both orders were called on shapes of different rank that
\* unify to a shape that is neither of them.
C8_Witness ==
    /\ unifyAB # Uncalled
    /\ unifyBA # Uncalled
    /\ unifyAB.err = ""
    /\ Len(shapeA) # Len(shapeB)
    /\ unifyAB.shape # shapeA
    /\ unifyAB.shape # shapeB

\* The value other shows at a cell of the unified shape.
BroadcastValue(m, other, big_shape, big_index) ==
    TensorData_get(m, other, broadcast_index(big_index, big_shape, other.shape))

\* The sum of other, broadcast to big_shape, over the cells of big_shape
\* that fall on cell `index` of `shape`.
SumOnto(m, other, big_shape, shape, index) ==
    SumSeq([o \in 1..prod(big_shape) |->
        LET big_index == to_index(o - 1, big_shape)
        IN  IF broadcast_index(big_index, big_shape, shape) = index
            THEN BroadcastValue(m, other, big_shape, big_index) ELSE 0])

Total(m, t) ==
    SumSeq([o \in 1..prod(t.shape) |-> TensorData_get(m, t, to_index(o - 1, t.shape))])

\* C10: for unifiable shapes self.expand(other) returns a tensor of self's
\* shape: other itself when the shapes agree, and otherwise, cell by cell,
\* the sum of other broadcast to the unified shape over the cells that fall
\* on that cell of self (a single cell when the unified shape is self's);
\* the entries returned add up to the entries of the broadcast other.
C10_ExpandShape ==
    /\ pc = "raised" => Clash(selfT.shape, otherT.shape)
    /\ pc = "expanded" =>
          LET big == shape_broadcast(selfT.shape, otherT.shape).shape
          IN  /\ ~Clash(selfT.shape, otherT.shape)
              /\ expOut.shape = selfT.shape
              /\ selfT.shape = otherT.shape => expOut = otherT
              /\ \A index \in Indices(selfT.shape) :
                    TensorData_get(mem, expOut, index) =
                        SumOnto(mem, otherT, big, selfT.shape, index)
              /\ (selfT.shape = big /\ selfT.shape # otherT.shape) =>
                    \A index \in Indices(selfT.shape) :
                        TensorData_get(mem, expOut, index) =
                            BroadcastValue(mem, otherT, big, index)
              /\ Total(mem, expOut) =
                    SumSeq([o \in 1..prod(big) |->
                        BroadcastValue(mem, otherT, big, to_index(o - 1, big))])

\* C10 witness: expand took the reducing path, on a receiver of several
\* cells that was broadcast in a size-1 dimension.
C10_Witness ==
    /\ pc = "expanded"
    /\ selfT.shape # shape_broadcast(selfT.shape, otherT.shape).shape
    /\ \E d \in 1..Len(selfT.shape) :
          selfT.shape[d] = 1 /\ FromRight(otherT.shape, Len(selfT.shape) - d + 1) > 1
    /\ prod(selfT.shape) > 1

\* =================================================== SpecPermute, SpecView
\* A script that holds one tensor and calls permute, contiguous and view on
\* it, and the backward rules of Permute and View on what those returned.
\* The tensor holds 1, 2, 3, ... so that every cell is told apart.
Orders(n) == {o \in [1..n -> 0..(n - 1)] : TRUE}

InitOps(shapes) ==
    \E s \in shapes :
        LET a == Tensor_make(<<[i \in 1..prod(s) |-> i]>>, 1, s)
        IN  /\ mem = a.mem
            /\ cur = a.out
            /\ last = NoOp
            /\ prev = NoOp
            /\ nops = 0
            /\ pc = "ops"
            /\ err = ""
            /\ shapeA = <<>>
            /\ shapeB = <<>>
            /\ unifyAB = Uncalled
            /\ unifyBA = Uncalled
            /\ selfT = NoneT
            /\ otherT = NoneT
            /\ expOut = NoneT
            /\ tensors = <<>>
            /\ root = 0
            /\ queue = <<>>
            /\ grads = <<>>
            /\ calls = <<>>

\* The script's state after a call on cur that returned r.
AfterCall(fn, arg, r, out) ==
    /\ mem' = r.mem
    /\ prev' = last
    /\ last' = [fn |-> fn, arg |-> arg, saved |-> r.saved, in |-> cur,
                snap |-> mem[cur.storage], out |-> out, err |-> r.err]
    /\ cur' = IF r.err = "" THEN out ELSE cur
    /\ err' = r.err
    /\ pc' = IF r.err = "" THEN "ops" ELSE "raised"
    /\ nops' = nops + 1
    /\ UNCHANGED <<shapeVars, expandVars, gradVars>>

\* cur.permute(*order)
CallPermute(maxOps) ==
    /\ pc = "ops"
    /\ nops < maxOps
    /\ \E order \in Orders(Len(cur.shape)) :
          LET r == Permute_forward(mem, cur, order)
          IN  AfterCall("Permute", order, r, r.out)

\* Permute.backward on the context of the permute just made, with the
\* permuted tensor as grad_output.
CallPermuteBackward ==
    /\ pc = "ops"
    /\ last.fn = "Permute"
    /\ LET r == Permute_backward(mem, last.saved, cur)
       IN  AfterCall("Permute.backward", <<>>,
                     [mem |-> r.mem, err |-> r.err, saved |-> <<>>], r.outs[1])

\* cur.contiguous()
CallContiguous ==
    /\ pc = "ops"
    /\ nops < MaxOps
    /\ LET r == Copy_forward(mem, cur)
       IN  AfterCall("Copy", <<>>, r, r.out)

\* cur.view(*shape)
CallView ==
    /\ pc = "ops"
    /\ nops < MaxOps
    /\ \E shape \in ViewShapes :
          LET r == View_forward(mem, cur, shape)
          IN  AfterCall("View", shape, r, r.out)

\* View.backward on the context of the view just made, with the viewed
\* tensor as grad_output.
CallViewBackward ==
    /\ pc = "ops"
    /\ nops < MaxOps
    /\ last.fn = "View"
    /\ LET r == View_backward(mem, last.saved, cur)
       IN  AfterCall("View.backward", <<>>,
                     [mem |-> r.mem, err |-> r.err, saved |-> <<>>], r.outs[1])

\* SpecPermute: a permute or two, by any order, and the backward rule of
\* the last.
InitPermute == InitOps(PermShapes)
NextPermute == CallPermute(2) \/ CallPermuteBackward
SpecPermute == InitPermute /\ [][NextPermute]_vars

\* SpecView: MaxOps calls of permute, contiguous, view and View.backward.
InitView == InitOps(ViewShapes)
NextView == CallPermute(MaxOps) \/ CallContiguous \/ CallView \/ CallViewBackward
SpecView == InitView /\ [][NextView]_vars

\* The value a tensor held at a multi-index when the contents of its
\* storage were snap.
SnapGet(snap, t, index) == snap[index_to_position(index, t.strides) + 1]

\* C5: after permute(order) for a permutation order, Permute.backward's
\* order undoes it: the tensor it returns has the original shape and, at
\* every multi-index, the original value.
C5_PermuteInverse ==
    (last.fn = "Permute.backward" /\ prev.fn = "Permute") =>
        /\ last.err = ""
        /\ cur.shape = prev.in.shape
        /\ \A index \in Indices(prev.in.shape) :
              TensorData_get(mem, cur, index) = SnapGet(prev.snap, prev.in, index)
        /\ \A i \in 1..Len(prev.saved) :
              prev.saved[argsort(prev.saved)[i] + 1] = i - 1

\* C5 witness: the order undone moved every one of three dimensions, of a
\* tensor that has several cells along each.
C5_Witness ==
    /\ last.fn = "Permute.backward"
    /\ prev.fn = "Permute"
    /\ Len(prev.saved) = 3
    /\ \A i \in 1..3 : prev.saved[i] # i - 1
    /\ \A i \in 1..3 : prev.in.shape[i] > 1

\* C6: view on a tensor that is not contiguous raises and returns no
\* tensor; a view that returned was made on a contiguous tensor; and on the
\* contiguous copy of a tensor every view of the same size returns.
C6_ViewContiguous ==
    last.fn = "View" =>
        /\ ~is_contiguous(last.in) =>
              /\ last.err = "AssertionError"
              /\ last.out = NoneT
              /\ pc = "raised"
              /\ cur = last.in
        /\ last.err = "" =>
              /\ is_contiguous(last.in)
              /\ last.out # NoneT
        /\ (prev.fn = "Copy" /\ prod(last.arg) = prod(last.in.shape)) =>
              /\ last.err = ""
              /\ cur.shape = last.arg

\* C6 witness, the rejection: view raised on a permuted tensor although the
\* new shape has the tensor's size.
C6_Witness ==
    /\ last.fn = "View"
    /\ prev.fn = "Permute"
    /\ last.err = "AssertionError"
    /\ prod(last.arg) = prod(last.in.shape)

\* C7: view(S2) and then view(S) on a contiguous tensor of shape S gives a
\* tensor of shape S over the very same storage, whose contents are as they
\* were, so that every multi-index reads its original value; and
\* View.backward gives grad_output's storage under the saved shape.
C7_ViewRoundTrip ==
    /\ (last.fn = "View" /\ prev.fn = "View" /\ last.err = ""
            /\ last.arg = prev.in.shape) =>
          /\ cur.shape = prev.in.shape
          /\ cur.storage = prev.in.storage
          /\ mem[cur.storage] = prev.snap
          /\ \A index \in Indices(prev.in.shape) :
                TensorData_get(mem, cur, index) = SnapGet(prev.snap, prev.in, index)
    /\ (last.fn = "View" /\ last.err = "") =>
          /\ cur.storage = last.in.storage
          /\ mem[cur.storage] = last.snap
          /\ cur.shape = last.arg
    /\ (last.fn = "View.backward" /\ prev.fn = "View") =>
          /\ last.err = ""
          /\ cur.shape = prev.in.shape
          /\ cur.storage = last.in.storage
          /\ mem[cur.storage] = last.snap

\* C7 witness: a round trip through a different shape.
C7_Witness ==
    /\ last.fn = "View"
    /\ prev.fn = "View"
    /\ last.err = ""
    /\ last.arg = prev.in.shape
    /\ prev.arg # prev.in.shape
    /\ prod(cur.shape) > 1

\* ========================================================= Spec, SpecGraph
\* A script that makes tensors with tensor(ls), marks some as requiring
\* grad, zeroes their gradient, combines them with -, +, * and sum, and
\* calls backward once.  A raised exception ends the script.
\*   Spec       at most MaxTensors tensors, of two cells or of one;
\*   SpecGraph  at most GraphTensors tensors over one single-cell leaf,
\*              combined with - and +: longer graphs, smaller tensors.
LeafLists == {<<2, 3>>, <<4, 5>>, <<4, 4>>}
GradLists == {<<1>>, <<1, 1>>}
GraphLeafLists == {<<7>>}

Init ==
    /\ mem = <<>>
    /\ tensors = <<>>
    /\ pc = "build"
    /\ err = ""
    /\ root = 0
    /\ queue = <<>>
    /\ grads = <<>>
    /\ calls = <<>>
    /\ last = NoOp
    /\ prev = NoOp
    /\ nops = 0
    /\ cur = NoneT
    /\ shapeA = <<>>
    /\ shapeB = <<>>
    /\ unifyAB = Uncalled
    /\ unifyBA = Uncalled
    /\ selfT = NoneT
    /\ otherT = NoneT
    /\ expOut = NoneT

Leaves == {i \in 1..Len(tensors) : tensors[i].back \in {NoBack, LeafBack}}

\* x = tensor(ls); the leaves are made before the first function is applied.
NewLeaf(lists, maxTensors, maxLeaves) ==
    /\ pc = "build"
    /\ Len(tensors) < maxTensors
    /\ Cardinality(Leaves) < maxLeaves
    /\ Leaves = 1..Len(tensors)
    /\ \E ls \in lists :
          LET r == tensor(mem, ls)
          IN  /\ mem' = r.mem
              /\ tensors' = Append(tensors, Function_variable(r.out, NoBack))
              /\ last' = [NoOp EXCEPT !.fn = "tensor", !.arg = ls]
    /\ UNCHANGED <<pc, err, root, queue, grads, calls, prev, nops, cur,
                   shapeVars, expandVars>>

\* x.requires_grad_(True), on the tensor just made: back = Back().
RequiresGrad ==
    /\ pc = "build"
    /\ last.fn = "tensor"
    /\ tensors[Len(tensors)].back = NoBack
    /\ tensors' = [tensors EXCEPT ![Len(tensors)].back = LeafBack]
    /\ last' = [NoOp EXCEPT !.fn = "requires_grad_", !.arg = <<Len(tensors)>>]
    /\ UNCHANGED <<mem, pc, err, root, queue, grads, calls, prev, nops, cur,
                   shapeVars, expandVars>>

\* x.zero_grad_(), on the tensor just marked: derivative = self.zeros().
ZeroGrad ==
    /\ pc = "build"
    /\ last.fn = "requires_grad_"
    /\ LET x == Len(tensors)
           z == Variable_zero_grad_(mem, tensors[x])
       IN  /\ mem' = z.mem
           /\ tensors' = [tensors EXCEPT ![x] = z.out]
           /\ last' = [NoOp EXCEPT !.fn = "zero_grad_", !.arg = <<x>>]
    /\ UNCHANGED <<pc, err, root, queue, grads, calls, prev, nops, cur,
                   shapeVars, expandVars>>

\* The script's state after fn.apply on the tensors at `inputs`.
Applied(fn, inputs, arg) ==
    LET Result(r) ==
            /\ mem' = r.mem
            /\ tensors' = r.tensors
            /\ err' = r.err
            /\ pc' = IF r.err = "" THEN "build" ELSE "raised"
            /\ last' = [NoOp EXCEPT !.fn = fn, !.arg = inputs, !.saved = arg, !.err = r.err]
            /\ UNCHANGED <<root, queue, grads, calls, prev, nops, cur,
                           shapeVars, expandVars>>
    IN  Result(FunctionBase_apply(mem, tensors, fn, inputs, arg))

\* -a
CallNeg(maxTensors) ==
    /\ pc = "build"
    /\ Len(tensors) < maxTensors
    /\ \E i \in 1..Len(tensors) : Applied("Neg", <<i>>, <<>>)

\* a + b
CallAdd(maxTensors) ==
    /\ pc = "build"
    /\ Len(tensors) < maxTensors
    /\ \E i \in 1..Len(tensors), j \in 1..Len(tensors) : Applied("Add", <<i, j>>, <<>>)

\* a * b
CallMul(maxTensors) ==
    /\ pc = "build"
    /\ Len(tensors) < maxTensors
    /\ \E i \in 1..Len(tensors), j \in 1..Len(tensors) : Applied("Mul", <<i, j>>, <<>>)

\* a.sum() and a.sum(dim)
CallSum(maxTensors) ==
    /\ pc = "build"
    /\ Len(tensors) < maxTensors
    /\ \E i \in 1..Len(tensors) :
          \E dim \in {<<>>} \cup {<<d - 1>> : d \in 1..Len(tensors[i]._tensor.shape)} :
              Applied("Sum", <<i>>, dim)

\* r.backward() and r.backward(tensor(gl)), on a tensor that has a history.
CallBackward(lists) ==
    /\ pc = "build"
    /\ \E r \in 1..Len(tensors), gl \in {<<>>} \cup lists :
          /\ has_history(tensors[r])
          /\ LET g == IF gl = <<>> THEN Return(mem, NoneT) ELSE tensor(mem, gl)
                 Result(b) ==
                     /\ mem' = b.mem
                     /\ tensors' = b.tensors
                     /\ grads' = b.grads
                     /\ queue' = b.queue
                     /\ err' = b.err
                     /\ pc' = IF b.err # "" THEN "raised"
                              ELSE IF b.queue = <<>> THEN "done" ELSE "backprop"
                     /\ last' = [fn |-> "backward", arg |-> <<r>>, saved |-> <<>>,
                                 in |-> g.out,
                                 snap |-> [i \in 1..Len(tensors) |-> tensors[i].derivative],
                                 out |-> b.seed, err |-> b.err]
             IN  Result(Tensor_backward(g.mem, tensors, r, g.out))
          /\ root' = r
    /\ calls' = <<>>
    /\ UNCHANGED <<prev, nops, cur, shapeVars, expandVars>>

\* One node of the running pass: its backward rule is invoked on the
\* gradient accumulated for it, and chain_rule hands the results on.
BackwardStep ==
    /\ pc = "backprop"
    /\ queue # <<>>
    /\ LET n == Head(queue)
           b == tensors[n].back
           Propagated(r) ==
               IF r.err # ""
               THEN [mem |-> r.mem, tensors |-> tensors, grads |-> grads, err |-> r.err]
               ELSE chain_rule([mem |-> r.mem, tensors |-> tensors, grads |-> grads,
                                err |-> ""], b.inputs, r.outs, 1)
           Result(st) ==
               /\ calls' = Append(calls, n)
               /\ queue' = Tail(queue)
               /\ mem' = st.mem
               /\ tensors' = st.tensors
               /\ grads' = st.grads
               /\ err' = st.err
               /\ pc' = IF st.err # "" THEN "raised"
                        ELSE IF Tail(queue) = <<>> THEN "done" ELSE "backprop"
       IN  Result(Propagated(Backward(b.fn, mem, b.saved, grads[n])))
    /\ UNCHANGED <<root, last, prev, nops, cur, shapeVars, expandVars>>

Next ==
    \/ NewLeaf(LeafLists, MaxTensors, MaxLeaves)
    \/ RequiresGrad
    \/ ZeroGrad
    \/ CallNeg(MaxTensors)
    \/ CallAdd(MaxTensors)
    \/ CallMul(MaxTensors)
    \/ CallSum(MaxTensors)
    \/ CallBackward(GradLists)
    \/ BackwardStep

Spec == Init /\ [][Next]_vars

NextGraph ==
    \/ NewLeaf(GraphLeafLists, GraphTensors, 1)
    \/ RequiresGrad
    \/ CallNeg(GraphTensors)
    \/ CallAdd(GraphTensors)
    \/ CallBackward({})
    \/ BackwardStep

SpecGraph == Init /\ [][NextGraph]_vars

\* ------------------------------------------------------------ properties
\* The nodes that use tensor n as an input.
Consumers(n) ==
    {c \in 1..Len(tensors) : \E k \in 1..Len(tensors[c].back.inputs) :
        tensors[c].back.inputs[k] = n}

\* The tensors reachable from n by back references.
RECURSIVE Reach(_)
Reach(n) == {n} \cup UNION {Reach(tensors[n].back.inputs[k]) :
                               k \in 1..Len(tensors[n].back.inputs)}

\* The values of a tensor, cell by cell in row-major order.
Values(m, t) ==
    [o \in 1..prod(t.shape) |-> TensorData_get(m, t, to_index(o - 1, t.shape))]

\* A gradient slot that holds nothing yet: None, or all zeros.
Fresh(m, slot) ==
    slot = NoneT \/ \A index \in Indices(slot.shape) : TensorData_get(m, slot, index) = 0

\* C1: in a backward pass every backward rule invoked belongs to a node
\* reachable from the root, is invoked once, and is invoked only after the
\* rule of every node of the pass that uses the node's output.
C1_BackwardOrder ==
    \A k \in 1..Len(calls) :
        /\ calls[k] \in Reach(root)
        /\ \A j \in 1..(k - 1) : calls[j] # calls[k]
        /\ \A c \in Consumers(calls[k]) \cap Reach(root) :
              \E j \in 1..(k - 1) : calls[j] = c

\* C1 witness: a finished pass over a diamond: a node that is not a leaf
\* feeds two different nodes, one of which feeds the other.
C1_Witness ==
    /\ pc = "done"
    /\ \E k \in 1..Len(calls) :
          \E c1 \in Consumers(calls[k]), c2 \in Consumers(calls[k]) :
              /\ c1 # c2
              /\ c1 \in Consumers(c2)
              /\ {c1, c2} \subseteq Reach(root)

\* C2: for a leaf x that requires grad and holds no gradient yet, y = x + x and
\* y.sum().backward() leave in x a gradient of x's shape that is 2.0
\* everywhere.
C2_AdditiveAccumulation ==
    (pc = "done" /\ last.fn = "backward" /\ last.in = NoneT) =>
        \A x \in 1..Len(tensors), y \in 1..Len(tensors) :
            (/\ is_leaf(tensors[x])
             /\ Fresh(mem, last.snap[x])
             /\ tensors[y].back.fn = "Add"
             /\ tensors[y].back.inputs = <<x, x>>
             /\ tensors[root].back.fn = "Sum"
             /\ tensors[root].back.inputs = <<y>>) =>
                /\ tensors[x].derivative # NoneT
                /\ tensors[x].derivative.shape = tensors[x]._tensor.shape
                /\ \A index \in Indices(tensors[x]._tensor.shape) :
                      TensorData_get(mem, tensors[x].derivative, index) = 2

\* C2 witness: such a pass has finished on an x of several cells.
C2_Witness ==
    /\ pc = "done"
    /\ last.in = NoneT
    /\ \E x \in 1..Len(tensors), y \in 1..Len(tensors) :
          /\ is_leaf(tensors[x])
          /\ prod(tensors[x]._tensor.shape) > 1
          /\ tensors[y].back.fn = "Add"
          /\ tensors[y].back.inputs = <<x, x>>
          /\ tensors[root].back.fn = "Sum"
          /\ tensors[root].back.inputs = <<y>>

\* C3: x.sum() has shape (1,); and for a leaf x of shape (n,) that requires
\* grad and holds no gradient yet, x.sum().backward() leaves in x a gradient of
\* x's shape that is 1.0 everywhere.
C3_SumUniform ==
    /\ (last.fn = "Sum" /\ last.saved = <<>> /\ last.err = "") =>
          tensors[Len(tensors)]._tensor.shape = <<1>>
    /\ (pc = "done" /\ last.fn = "backward" /\ last.in = NoneT) =>
          \A x \in 1..Len(tensors) :
              (/\ is_leaf(tensors[x])
               /\ Fresh(mem, last.snap[x])
               /\ tensors[root].back.fn = "Sum"
               /\ tensors[root].back.inputs = <<x>>) =>
                  /\ tensors[x].derivative # NoneT
                  /\ tensors[x].derivative.shape = tensors[x]._tensor.shape
                  /\ \A index \in Indices(tensors[x]._tensor.shape) :
                        TensorData_get(mem, tensors[x].derivative, index) = 1

\* C3 witness: such a pass has finished on an x of several equal entries.
C3_Witness ==
    /\ pc = "done"
    /\ last.in = NoneT
    /\ \E x \in 1..Len(tensors) :
          /\ is_leaf(tensors[x])
          /\ Values(mem, tensors[x]._tensor) = <<4, 4>>
          /\ tensors[root].back.fn = "Sum"
          /\ tensors[root].back.inputs = <<x>>
          /\ tensors[x].derivative # NoneT

\* C4: a * b on tensors of the same shape returns their elementwise
\* product.
C4_MulProduct ==
    (last.fn = "Mul"
        /\ tensors[last.arg[1]]._tensor.shape = tensors[last.arg[2]]._tensor.shape) =>
        /\ last.err = ""
        /\ pc = "build"
        /\ Values(mem, tensors[Len(tensors)]._tensor) =
              [o \in 1..prod(tensors[last.arg[1]]._tensor.shape) |->
                  Values(mem, tensors[last.arg[1]]._tensor)[o]
                      * Values(mem, tensors[last.arg[2]]._tensor)[o]]

\* C9: backward(grad_output) raises ShapeMismatch exactly when grad_output
\* has not the root's shape and is otherwise seeded with grad_output;
\* backward() raises exactly when the root's shape is not (1,) and is
\* otherwise seeded with the tensor [1.0]; and a backward that raised left
\* every gradient slot as it was.
C9_BackwardSeed ==
    last.fn = "backward" =>
        LET shape == tensors[last.arg[1]]._tensor.shape
        IN  /\ last.in # NoneT =>
                  /\ (last.err = "ShapeMismatch") <=> (last.in.shape # shape)
                  /\ (last.err = "") <=> (last.in.shape = shape)
                  /\ last.err = "" => last.out = last.in
            /\ last.in = NoneT =>
                  /\ (last.err # "") <=> (shape # <<1>>)
                  /\ last.err = "" =>
                        /\ last.out.shape = <<1>>
                        /\ Values(mem, last.out) = <<1>>
            /\ last.err # "" =>
                  /\ pc = "raised"
                  /\ \A i \in 1..Len(tensors) : tensors[i].derivative = last.snap[i]

\* C9 witness: backward raised ShapeMismatch on a grad_output of the wrong
\* shape, in a script where some tensor had a gradient slot allocated.
C9_Witness ==
    /\ last.fn = "backward"
    /\ last.in # NoneT
    /\ last.err = "ShapeMismatch"
    /\ \E i \in 1..Len(tensors) : last.snap[i] # NoneT

====
